---- MODULE Spec2Model ----
(***************************************************************************)
(* A model of one SMTP session of go-smtpd (src/smtpd/smtpd.go): the       *)
(* command loop session.serve, its handlers, the command-line parser       *)
(* cmdLine, the MAIL/RCPT argument regular expressions and the envelopes   *)
(* the session drives.                                                     *)
(*                                                                         *)
(* Text is modelled byte for byte: a Go string is a sequence of one-       *)
(* character strings, so that Verb, Arg, checkValid and the regular        *)
(* expressions are computed the way the code computes them.  Replies are   *)
(* TLA+ strings holding the exact bytes written (CR LF included).          *)
(***************************************************************************)
EXTENDS Integers, Sequences, FiniteSets, TLC

(***************************************************************************)
(* Bounds of the model.                                                    *)
(***************************************************************************)
\* complete lines that may sit in the bufio.Reader behind the one being read
MaxPipe == 1
\* recipients one envelope may collect
MaxRcpts == 1
\* body lines read in one DATA phase before only the terminator or a read
\* error may follow
\* bytes of a line of a message body, before its CR LF
MaxLen == 2

MaxBody == 2

(***************************************************************************)
(* Bytes and strings.                                                      *)
(***************************************************************************)
Lower == <<"a","b","c","d","e","f","g","h","i","j","k","l","m",
           "n","o","p","q","r","s","t","u","v","w","x","y","z">>
Upper == <<"A","B","C","D","E","F","G","H","I","J","K","L","M",
           "N","O","P","Q","R","S","T","U","V","W","X","Y","Z">>
Digits == <<"0","1","2","3","4","5","6","7","8","9">>

\* unicode.ToUpper on one ASCII byte
ToUpperChar(c) ==
    IF \E i \in 1..26 : Lower[i] = c
      THEN Upper[CHOOSE i \in 1..26 : Lower[i] = c]
      ELSE c

\* strings.ToUpper
ToUpper(s) == [i \in 1..Len(s) |-> ToUpperChar(s[i])]

\* unicode.IsSpace restricted to ASCII
IsSpace(c) == c \in {" ", "\t", "\n", "\r", "\f"}

IsDigit(c) == \E i \in 1..10 : Digits[i] = c

DigitVal(c) == (CHOOSE i \in 1..10 : Digits[i] = c) - 1

\* strings.HasSuffix
HasSuffix(s, suf) ==
    /\ Len(s) >= Len(suf)
    /\ SubSeq(s, Len(s) - Len(suf) + 1, Len(s)) = suf

\* strings.HasPrefix
HasPrefix(s, pre) ==
    /\ Len(s) >= Len(pre)
    /\ SubSeq(s, 1, Len(pre)) = pre

\* strings.Index(s, c) for a one-byte c, 1-based; 0 when c does not occur
\* (Go returns the 0-based index, -1 when absent)
Index(s, c) ==
    IF \E i \in 1..Len(s) : s[i] = c
      THEN CHOOSE i \in 1..Len(s) : s[i] = c /\ \A j \in 1..(i-1) : s[j] # c
      ELSE 0

\* strings.TrimRightFunc(s, unicode.IsSpace)
TrimRightSpace(s) ==
    IF \E i \in 1..Len(s) : ~IsSpace(s[i])
      THEN SubSeq(s, 1, CHOOSE i \in 1..Len(s) :
                           /\ ~IsSpace(s[i])
                           /\ \A j \in (i+1)..Len(s) : IsSpace(s[j]))
      ELSE <<>>

CRLF == <<"\r", "\n">>

(***************************************************************************)
(* cmdLine                                                                 *)
(***************************************************************************)
\* cmdLine.Verb: the text before the first space, else the text before the
\* last two bytes, upper-cased
Verb(cl) ==
    IF Index(cl, " ") # 0
      THEN ToUpper(SubSeq(cl, 1, Index(cl, " ") - 1))
      ELSE ToUpper(SubSeq(cl, 1, Len(cl) - 2))

\* cmdLine.Arg: the text after the first space and before the last two
\* bytes, trailing white space removed; empty when there is no space
Arg(cl) ==
    IF Index(cl, " ") # 0
      THEN TrimRightSpace(SubSeq(cl, Index(cl, " ") + 1, Len(cl) - 2))
      ELSE <<>>

RSET == <<"R","S","E","T">>
DATA == <<"D","A","T","A">>
QUIT == <<"Q","U","I","T">>
NOOP == <<"N","O","O","P">>
MAIL == <<"M","A","I","L">>
RCPT == <<"R","C","P","T">>
HELO == <<"H","E","L","O">>
EHLO == <<"E","H","L","O">>
STARTTLS == <<"S","T","A","R","T","T","L","S">>

\* the mutation of checkValid: the verbs that take no argument are not checked
checkValidNoArgCheck(cl) ==
    IF ~HasSuffix(cl, CRLF)
      THEN "line doesn't end in \\r\\n"
      ELSE ""

\* cmdLine.checkValid: "" for nil, else the error text
checkValid(cl) ==
    IF ~HasSuffix(cl, CRLF)
      THEN "line doesn't end in \\r\\n"
      ELSE IF Verb(cl) \in {RSET, DATA, QUIT} /\ Arg(cl) # <<>>
             THEN "unexpected argument"
             ELSE ""

(***************************************************************************)
(* The regular expressions of the MAIL and RCPT arguments.  A failed match *)
(* (a nil submatch slice) is NoMatch.                                      *)
(***************************************************************************)
NoMatch == <<>>

\* the set of positions of c in s that are >= from
Positions(s, c, from) == {i \in from..Len(s) : s[i] = c}

Min(S) == CHOOSE x \in S : \A y \in S : x <= y
Max(S) == CHOOSE x \in S : \A y \in S : x >= y

\* mailFromRE = ^[Ff][Rr][Oo][Mm]:<([^>]*)>(.*)$
\* the submatches <<m[1], m[2]>>: [^>]* ends at the first '>', .* takes the
\* rest and does not match a line feed
mailFromRE(arg) ==
    IF /\ Len(arg) >= 7
       /\ ToUpper(SubSeq(arg, 1, 4)) = <<"F","R","O","M">>
       /\ arg[5] = ":"
       /\ arg[6] = "<"
       /\ Positions(arg, ">", 7) # {}
       /\ Positions(arg, "\n", Min(Positions(arg, ">", 7))) = {}
      THEN <<SubSeq(arg, 7, Min(Positions(arg, ">", 7)) - 1),
             SubSeq(arg, Min(Positions(arg, ">", 7)) + 1, Len(arg))>>
      ELSE NoMatch

\* the positions at which mailSizeRE = [Ss][Ii][Zz][Ee]=(\d+) matches
SizeStarts(p) ==
    {i \in 1..(Len(p) - 5) :
        /\ ToUpper(SubSeq(p, i, i + 3)) = <<"S","I","Z","E">>
        /\ p[i + 4] = "="
        /\ IsDigit(p[i + 5])}

\* the longest run of digits of p that starts at position i
DigitRun(p, i) ==
    SubSeq(p, i, Max({j \in i..Len(p) : \A k \in i..j : IsDigit(p[k])}))

\* mailSizeRE.FindStringSubmatch(p)[1]: the digits of the leftmost match
mailSizeRE(p) ==
    IF SizeStarts(p) # {}
      THEN DigitRun(p, Min(SizeStarts(p)) + 5)
      ELSE NoMatch

\* the largest value of Go's int.  Its width is that of the build's machine
\* word; the 32-bit build is modelled, the 64-bit one differs in this
\* number only.
MaxInt == 2147483647

AtoiError == -1

RECURSIVE AtoiFrom(_, _, _)
AtoiFrom(s, i, acc) ==
    IF i > Len(s) THEN acc
    ELSE IF acc > (MaxInt - DigitVal(s[i])) \div 10 THEN AtoiError
    ELSE AtoiFrom(s, i + 1, acc * 10 + DigitVal(s[i]))

\* strconv.Atoi on a non-empty string of digits: the value, or AtoiError
\* when it is out of the range of int
Atoi(s) == AtoiFrom(s, 1, 0)

\* rcptToRE = ^[Tt][Oo]:<(.+)>   (.+ is greedy: it ends at the last '>')
rcptToRE(arg) ==
    IF /\ Len(arg) >= 6
       /\ ToUpper(SubSeq(arg, 1, 2)) = <<"T","O">>
       /\ arg[3] = ":"
       /\ arg[4] = "<"
       /\ Positions(arg, ">", 6) # {}
      THEN <<SubSeq(arg, 5, Max(Positions(arg, ">", 6)) - 1)>>
      ELSE NoMatch

(***************************************************************************)
(* Errors.  An error value is nil, a plain error, or an SMTPError whose     *)
(* text is a complete reply.                                                *)
(***************************************************************************)
NilErr == [kind |-> "nil", text |-> ""]
PlainErr(t) == [kind |-> "plain", text |-> t]
SMTPError(t) == [kind |-> "smtp", text |-> t]

\* the errors an embedder's callback or envelope may return
EmbedderErrors == {PlainErr("no"), SMTPError("550 5.7.1 rejected by policy")}

(***************************************************************************)
(* Envelopes.  kind "basic" is BasicEnvelope, "ajas" the envelope of the    *)
(* sample embedder (BasicEnvelope with AddRecipient overridden), "custom"   *)
(* an embedder's envelope whose operations may return anything.             *)
(***************************************************************************)
Null == [kind |-> "nil", rcpts |-> <<>>]
EnvKinds == {"basic", "ajas", "custom"}
NewEnvelope(k) == [kind |-> k, rcpts |-> <<>>]

\* BasicEnvelope.AddRecipient: the set of possible <<error, envelope after>>
BasicAddRecipient(e, rcpt) ==
    {<<NilErr, [e EXCEPT !.rcpts = Append(@, rcpt)]>>}

\* env.AddRecipient of the sample embedder
AjasAddRecipient(e, rcpt) ==
    IF HasPrefix(rcpt, <<"b","a","d","@">>)
      THEN {<<PlainErr("we don't send email to bad@"), e>>}
      ELSE BasicAddRecipient(e, rcpt)

\* the mutation of BasicEnvelope.BeginData: the recipient list is not checked
BasicBeginDataUnchecked(e) == NilErr

\* BasicEnvelope.BeginData
BasicBeginData(e) ==
    IF Len(e.rcpts) = 0
      THEN SMTPError("554 5.5.1 Error: no valid recipients")
      ELSE NilErr

\* Envelope.AddRecipient, by dynamic type
AddRecipient(e, rcpt) ==
    CASE e.kind = "basic" -> BasicAddRecipient(e, rcpt)
      [] e.kind = "ajas" -> AjasAddRecipient(e, rcpt)
      [] OTHER -> {<<err, e>> : err \in {NilErr} \cup EmbedderErrors}

\* Envelope.BeginData: the set of possible errors
BeginData(e) ==
    IF e.kind \in {"basic", "ajas"}
      THEN {BasicBeginData(e)}
      ELSE {NilErr} \cup EmbedderErrors

\* Envelope.Write: BasicEnvelope.Write prints the line and returns nil
Write(e, sl) ==
    IF e.kind \in {"basic", "ajas"} THEN {NilErr} ELSE {NilErr} \cup EmbedderErrors

\* Envelope.Close, named EnvClose here: BasicEnvelope.Close returns nil
EnvClose(e) ==
    IF e.kind \in {"basic", "ajas"} THEN {NilErr} ELSE {NilErr} \cup EmbedderErrors

(***************************************************************************)
(* The lines a client sends.                                                *)
(***************************************************************************)
SP == <<" ">>
FromAX == <<"F","R","O","M",":","<","a","@","x",">">>
SizeEq == <<"S","I","Z","E","=">>
AddrBY == <<"b","@","y">>
AddrBadX == <<"b","a","d","@","x">>
ToAddr(a) == <<"T","O",":","<">> \o a \o <<">">>

MailLines ==
    { MAIL \o SP \o FromAX \o CRLF,
      <<"m","a","i","l">> \o SP \o <<"f","r","o","m",":","<",">">> \o CRLF,
      MAIL \o SP \o <<"F","R","O","M",":","a","@","x">> \o CRLF,
      MAIL \o SP \o FromAX \o SP \o SizeEq \o <<"1","2","3">> \o CRLF,
      MAIL \o SP \o FromAX \o SP \o SizeEq \o <<"x","y","z">> \o CRLF,
      MAIL \o SP \o FromAX \o SP \o SizeEq
           \o <<"9","9","9","9","9","9","9","9","9","9","9">> \o CRLF }

RcptLines ==
    { RCPT \o SP \o ToAddr(AddrBY) \o CRLF,
      RCPT \o SP \o ToAddr(AddrBadX) \o CRLF,
      RCPT \o SP \o <<"T","O",":","b","@","y">> \o CRLF }

NoArgLines ==
    { RSET \o CRLF,
      <<"r","s","e","t">> \o SP \o SP \o CRLF,
      RSET \o SP \o <<"x">> \o CRLF,
      DATA \o CRLF,
      DATA \o SP \o <<"x">> \o CRLF,
      QUIT \o CRLF,
      QUIT \o SP \o <<"x">> \o CRLF }

\* lines that are body text when they follow 354
BodyLines ==
    { <<".">> \o CRLF,
      <<".", ".", "f", "o", "o">> \o CRLF,
      <<"b","o","d","y">> \o CRLF,
      NOOP \o CRLF }

OtherLines ==
    { HELO \o SP \o <<"a">> \o CRLF,
      EHLO \o SP \o <<"a">> \o CRLF,
      <<"e","h","l","o">> \o SP \o <<"b">> \o CRLF,
      STARTTLS \o CRLF,
      <<"V","R","F","Y">> \o SP \o <<"a">> \o CRLF,
      DATA \o <<"\n">> }

Lines == MailLines \cup RcptLines \cup NoArgLines \cup BodyLines \cup OtherLines

NoLine == <<>>

\* the size option serve passes on: <<>> for a nil pointer, <<n>> for a
\* pointer to n, <<AtoiError>> when strconv.Atoi fails
MailSize(params) ==
    IF Len(params) > 0 /\ mailSizeRE(params) # NoMatch
      THEN <<Atoi(mailSizeRE(params))>>
      ELSE <<>>

\* what serve and the handlers compute from a command line: the result of
\* checkValid, the verb, the argument, the submatches of the argument and
\* the size option (computed once for each line of Lines)
Parsed ==
    [l \in Lines |->
        [invalid |-> checkValid(l),
         verb |-> Verb(l),
         arg |-> Arg(l),
         from |-> mailFromRE(Arg(l)),
         size |-> IF mailFromRE(Arg(l)) = NoMatch
                    THEN <<>>
                    ELSE MailSize(mailFromRE(Arg(l))[2]),
         to |-> rcptToRE(Arg(l))]]

(***************************************************************************)
(* Server configurations.  OnNewConnection and OnNewMail say whether the    *)
(* callback is set; TLSConfig whether a TLS configuration is; the timeouts  *)
(* whether they are non-zero.                                               *)
(***************************************************************************)
Hostname == "mx.example"

DefaultServer ==
    [PlainAuth |-> FALSE, TLSConfig |-> FALSE, MaxSize |-> 0,
     OnNewConnection |-> FALSE, OnNewMail |-> TRUE,
     ReadTimeout |-> FALSE, WriteTimeout |-> FALSE]

Servers ==
    { DefaultServer,
      [DefaultServer EXCEPT !.OnNewMail = FALSE],
      [DefaultServer EXCEPT !.PlainAuth = TRUE, !.MaxSize = 10485760,
                            !.ReadTimeout = TRUE],
      [PlainAuth |-> TRUE, TLSConfig |-> TRUE, MaxSize |-> 10485760,
       OnNewConnection |-> TRUE, OnNewMail |-> TRUE,
       ReadTimeout |-> TRUE, WriteTimeout |-> TRUE] }

(***************************************************************************)
(* The state of one session.                                                *)
(***************************************************************************)
VARIABLES
    srv,        \* the Server the session belongs to
    pc,         \* where the session is: "start" before OnNewConnection,
                \* "cmd" about to read a command line in serve, "data" about
                \* to read a body line in handleData, "done" after serve has
                \* returned, "panic" after the process has panicked
    env,        \* session.env, Null for nil
    rwc,        \* the connection: "open", or "closed" once Close was called
    eof,        \* the peer has closed its end: reads from the network fail
    buffered,   \* complete lines waiting in session.br
    tls,        \* session.rwc is the TLS connection
    helloType,  \* session.helloType
    helloHost,  \* session.helloHost
    line,       \* the last command line serve read, NoLine before the first
    replies,    \* what the session has written since it read that line, one
                \* element per sendf or handleHello
    calls,      \* the callbacks and envelope operations invoked since then,
                \* and the TLS handshake
    txOpen,     \* a MAIL FROM was accepted and neither RSET nor the end of a
                \* DATA phase begun with 354 has followed
    nbody,      \* body lines read in the current DATA phase
    step,       \* what the session did last: "init", "greet", "command" (a
                \* command line read and answered), "body" (a body line
                \* read), "readerror" (ReadSlice failed in serve),
                \* "bodyerror" (ReadSlice failed in handleData)
    prev,       \* env and rwc as they were when the last command line was read
    rcvd,       \* the body lines handleData has read since that command line
    rcptFailed, \* an AddRecipient of the current envelope has returned an error
    wire,       \* bytes of a message body the client has sent in one piece
                \* and the session has not read yet, <<>> when the client
                \* decides line by line
    body,       \* the message body those bytes were made from
    io,         \* the calls the last step made on the connection, in order:
                \* "SetReadDeadline", "ReadSlice", "SetWriteDeadline", "Write"
    ln          \* Server.Serve, the loop that accepted this session's
                \* connection: last is what Accept returned last ("none"
                \* since this session started, "conn", "temporary",
                \* "permanent"), running whether Serve has not returned

vars == <<srv, pc, env, rwc, eof, buffered, tls, helloType, helloHost,
          line, replies, calls, txOpen, nbody, step, prev,
          rcvd, rcptFailed, wire, body, io, ln>>

Call(op, arg, err) == [op |-> op, arg |-> arg, err |-> err]

Init ==
    /\ srv \in Servers
    /\ pc = "start"
    /\ env = Null
    /\ rwc = "open"
    /\ eof = FALSE
    /\ buffered = 0
    /\ tls = FALSE
    /\ helloType = <<>>
    /\ helloHost = <<>>
    /\ line = NoLine
    /\ replies = <<>>
    /\ calls = <<>>
    /\ txOpen = FALSE
    /\ nbody = 0
    /\ step = "init"
    /\ prev = [env |-> Null, rwc |-> "open"]
    /\ rcvd = <<>>
    /\ rcptFailed = FALSE
    /\ wire = <<>>
    /\ body = <<>>
    /\ io = <<>>
    /\ ln = [last |-> "none", running |-> TRUE]

(***************************************************************************)
(* Writing replies.                                                         *)
(***************************************************************************)
\* session.sendlinef: the bytes written, the format followed by CR LF
sendlinef(text) == text \o "\r\n"

\* the mutation of sendSMTPErrorOrLinef: the error's own reply is ignored
sendFallbackOnly(err, text) == sendlinef(text)

\* a mutation of sendSMTPErrorOrLinef: the text of every error is sent
sendErrorText(err, text) == sendlinef(err.text)

\* session.sendSMTPErrorOrLinef: the bytes written
sendSMTPErrorOrLinef(err, text) ==
    IF err.kind = "smtp" THEN sendlinef(err.text) ELSE sendlinef(text)

\* a mutation of Extensions: the fixed extensions come first
ExtensionsFixedFirst ==
    <<"250-PIPELINING", "250-ENHANCEDSTATUSCODES", "250-8BITMIME">>
    \o (IF srv.PlainAuth THEN <<"250-AUTH PLAIN">> ELSE <<>>)
    \o (IF srv.TLSConfig THEN <<"250-STARTTLS">> ELSE <<>>)
    \o (IF srv.MaxSize # 0
          THEN <<"250-SIZE " \o ToString(srv.MaxSize)>> ELSE <<>>)
    \o <<"250 DSN">>

\* the extension lines handleHello collects
Extensions ==
    (IF srv.PlainAuth THEN <<"250-AUTH PLAIN">> ELSE <<>>)
    \o (IF srv.TLSConfig THEN <<"250-STARTTLS">> ELSE <<>>)
    \o (IF srv.MaxSize # 0
          THEN <<"250-SIZE " \o ToString(srv.MaxSize)>> ELSE <<>>)
    \o <<"250-PIPELINING", "250-ENHANCEDSTATUSCODES", "250-8BITMIME", "250 DSN">>

RECURSIVE JoinLines(_)
JoinLines(ls) ==
    IF ls = <<>> THEN "" ELSE (Head(ls) \o "\r\n") \o JoinLines(Tail(ls))

(***************************************************************************)
(* Reading.  ReadSlice returns a complete line of the buffer when there is  *)
(* one, and reads from the connection otherwise; what the client has        *)
(* pipelined is chosen when it is read.                                     *)
(***************************************************************************)
\* ReadSlice can return a line: one is buffered, or the connection delivers
CanRead == buffered > 0 \/ (rwc = "open" /\ ~eof)

\* the buffer after a line was returned: one line fewer, or, after a read
\* from the connection, whatever arrived behind the line
TakeLine ==
    buffered' \in (IF buffered > 0 THEN {buffered - 1} ELSE 0..MaxPipe)

\* ReadSlice can fail (EOF, a closed connection, a timeout, a line longer
\* than the buffer): only when no complete line is buffered
CanFail == buffered = 0

\* bufio.Reader.ReadSlice('\n') on the bytes w, which hold a line feed: the
\* bytes up to and including the first one
ReadSlice(w) == SubSeq(w, 1, Index(w, "\n"))

\* serve has read the command line l: the next line of the bytes the client
\* has sent, or a line the client makes up now
ReadCmd(l) ==
    /\ pc = "cmd"
    /\ CanRead
    /\ line' = l
    /\ step' = "command"
    /\ prev' = [env |-> env, rwc |-> rwc]
    /\ rcvd' = <<>>
    /\ wire # <<>> => l = ReadSlice(wire)
    /\ wire' = SubSeq(wire, Len(l) + 1, Len(wire))
    /\ UNCHANGED <<body, ln>>

\* session.sendf: the write deadline when WriteTimeout is set, then the
\* write and the flush
sendfIO ==
    IF srv.WriteTimeout THEN <<"SetWriteDeadline", "Write">> ELSE <<"Write">>

\* handleHello writes to session.bw and flushes it itself
helloIO == <<"Write">>

\* serve: the read deadline when ReadTimeout is set, then ReadSlice
serveReadIO ==
    IF srv.ReadTimeout THEN <<"SetReadDeadline", "ReadSlice">>
    ELSE <<"ReadSlice">>

\* handleData: ReadSlice
dataReadIO == <<"ReadSlice">>

RECURSIVE RepeatIO(_, _)
RepeatIO(n, w) == IF n = 0 THEN <<>> ELSE w \o RepeatIO(n - 1, w)

\* io after a step: the read the step began with, then w for each reply
\* the step has written
IOHistory(w) ==
    io' = CASE step' = "greet" -> RepeatIO(Len(replies'), w)
            [] step' = "readerror" -> serveReadIO
            [] step' = "bodyerror" -> dataReadIO
            [] step' = "body" ->
                   dataReadIO \o RepeatIO(Len(replies') - Len(replies), w)
            [] OTHER -> serveReadIO \o RepeatIO(Len(replies'), w)

\* rcptFailed after a step: no envelope or a new envelope has no failed
\* AddRecipient; a command whose AddRecipient returned an error sets it
RcptHistory ==
    rcptFailed' =
        IF env' = Null THEN FALSE
        ELSE IF step' = "command" /\ calls' # <<>>
        THEN CASE calls'[1].op = "OnNewMail" -> FALSE
               [] calls'[1].op = "AddRecipient" ->
                      rcptFailed \/ calls'[1].err.kind # "nil"
               [] OTHER -> rcptFailed
        ELSE rcptFailed

(***************************************************************************)
(* The handlers.                                                            *)
(***************************************************************************)
\* serve, up to the greeting
Greet ==
    /\ pc = "start"
    /\ IF srv.OnNewConnection
         THEN \E err \in {NilErr} \cup EmbedderErrors :
                /\ calls' = <<Call("OnNewConnection", <<>>, err)>>
                /\ IF err.kind # "nil"
                     THEN /\ replies' = <<sendSMTPErrorOrLinef(err, "554 connection rejected")>>
                          /\ pc' = "done"
                          /\ rwc' = "closed"
                     ELSE /\ replies' = <<"220 " \o Hostname \o " ESMTP gosmtpd\r\n">>
                          /\ pc' = "cmd"
                          /\ rwc' = rwc
         ELSE /\ calls' = <<>>
              /\ replies' = <<"220 " \o Hostname \o " ESMTP gosmtpd\r\n">>
              /\ pc' = "cmd"
              /\ rwc' = rwc
    /\ UNCHANGED <<srv, env, eof, buffered, tls, helloType, helloHost, line,
                   txOpen, nbody>>
    /\ step' = "greet"
    /\ prev' = prev
    /\ UNCHANGED <<rcvd, wire, body, ln>>
    /\ RcptHistory
    /\ IOHistory(sendfIO)

\* serve: ReadSlice fails, the session ends and the deferred Close runs
ServeReadError ==
    /\ pc = "cmd"
    /\ CanFail
    /\ pc' = "done"
    /\ rwc' = "closed"
    /\ eof' \in (IF rwc = "open" THEN {eof, TRUE} ELSE {eof})
    /\ UNCHANGED <<srv, env, buffered, tls, helloType, helloHost, line,
                   replies, calls, txOpen, nbody>>
    /\ step' = "readerror"
    /\ prev' = prev
    /\ UNCHANGED <<rcvd, wire, body, ln>>
    /\ RcptHistory
    /\ IOHistory(sendfIO)

\* serve: checkValid fails
ServeInvalid ==
    \E l \in Lines :
        /\ Parsed[l].invalid # ""
        /\ ReadCmd(l)
        /\ TakeLine
        /\ replies' = <<sendlinef("500 " \o Parsed[l].invalid)>>
        /\ calls' = <<>>
        /\ UNCHANGED <<srv, pc, env, rwc, eof, tls, helloType, helloHost,
                       txOpen, nbody>>
        /\ RcptHistory
        /\ IOHistory(sendfIO)

\* session.handleHello
handleHello(greeting, host) ==
    /\ helloType' = greeting
    /\ helloHost' = host
    /\ replies' = <<("250-" \o Hostname \o "\r\n") \o JoinLines(Extensions)>>

ServeHello ==
    \E l \in Lines :
        /\ Parsed[l].invalid = ""
        /\ Parsed[l].verb \in {HELO, EHLO}
        /\ ReadCmd(l)
        /\ TakeLine
        /\ handleHello(Parsed[l].verb, Parsed[l].arg)
        /\ calls' = <<>>
        /\ UNCHANGED <<srv, pc, env, rwc, eof, tls, txOpen, nbody>>
        /\ RcptHistory
        /\ IOHistory(helloIO)

\* session.handleStartTLS; ok says whether the handshake succeeds
handleStartTLS(ok) ==
    IF ok
      THEN /\ replies' = <<sendlinef("220 Ready to start TLS")>>
           /\ calls' = <<Call("Handshake", <<>>, NilErr)>>
           /\ tls' = TRUE
           /\ buffered' = 0
      ELSE /\ replies' = <<sendlinef("220 Ready to start TLS"),
                           sendSMTPErrorOrLinef(PlainErr("tls"),
                               "403 4.7.0 TLS handshake failed")>>
           /\ calls' = <<Call("Handshake", <<>>, PlainErr("tls"))>>
           /\ tls' = tls
           /\ TakeLine

ServeStartTLS ==
    \E l \in Lines :
        /\ Parsed[l].invalid = ""
        /\ Parsed[l].verb = STARTTLS
        /\ ReadCmd(l)
        /\ IF ~srv.TLSConfig
             THEN /\ replies' = <<sendlinef("502 5.5.2 Error: command not recognized")>>
                  /\ calls' = <<>>
                  /\ tls' = tls
                  /\ TakeLine
             ELSE \E ok \in (IF rwc = "open" /\ ~eof THEN BOOLEAN ELSE {FALSE}) :
                      handleStartTLS(ok)
        /\ UNCHANGED <<srv, pc, env, rwc, eof, helloType, helloHost, txOpen, nbody>>
        /\ RcptHistory
        /\ IOHistory(sendfIO)

ServeQuit ==
    \E l \in Lines :
        /\ Parsed[l].invalid = ""
        /\ Parsed[l].verb = QUIT
        /\ ReadCmd(l)
        /\ TakeLine
        /\ replies' = <<sendlinef("221 2.0.0 Bye")>>
        /\ pc' = "done"
        /\ rwc' = "closed"
        /\ calls' = <<>>
        /\ UNCHANGED <<srv, env, eof, tls, helloType, helloHost, txOpen, nbody>>
        /\ RcptHistory
        /\ IOHistory(sendfIO)

ServeRset ==
    \E l \in Lines :
        /\ Parsed[l].invalid = ""
        /\ Parsed[l].verb = RSET
        /\ ReadCmd(l)
        /\ TakeLine
        /\ env' = Null
        /\ txOpen' = FALSE
        /\ replies' = <<sendlinef("250 2.0.0 OK")>>
        /\ calls' = <<>>
        /\ UNCHANGED <<srv, pc, rwc, eof, tls, helloType, helloHost, nbody>>
        /\ RcptHistory
        /\ IOHistory(sendfIO)

ServeNoop ==
    \E l \in Lines :
        /\ Parsed[l].invalid = ""
        /\ Parsed[l].verb = NOOP
        /\ ReadCmd(l)
        /\ TakeLine
        /\ replies' = <<sendlinef("250 2.0.0 OK")>>
        /\ calls' = <<>>
        /\ UNCHANGED <<srv, pc, env, rwc, eof, tls, helloType, helloHost,
                       txOpen, nbody>>
        /\ RcptHistory
        /\ IOHistory(sendfIO)

ServeUnknown ==
    \E l \in Lines :
        /\ Parsed[l].invalid = ""
        /\ Parsed[l].verb \notin {HELO, EHLO, STARTTLS, QUIT, RSET, NOOP, MAIL, RCPT, DATA}
        /\ ReadCmd(l)
        /\ TakeLine
        /\ replies' = <<sendlinef("502 5.5.2 Error: command not recognized")>>
        /\ calls' = <<>>
        /\ UNCHANGED <<srv, pc, env, rwc, eof, tls, helloType, helloHost,
                       txOpen, nbody>>
        /\ RcptHistory
        /\ IOHistory(sendfIO)

\* the mutation of handleMailFrom: no check for a transaction in progress
handleMailFromNoNestCheck(email, size) ==
    IF ~srv.OnNewMail
      THEN /\ pc' = "panic"
           /\ rwc' = "closed"
           /\ replies' = <<>>
           /\ calls' = <<>>
           /\ UNCHANGED <<env, txOpen>>
      ELSE \/ \E k \in EnvKinds :
                 /\ calls' = <<Call("OnNewMail", <<email, size>>, NilErr)>>
                 /\ env' = NewEnvelope(k)
                 /\ txOpen' = TRUE
                 /\ replies' = <<sendlinef("250 2.1.0 Ok")>>
                 /\ UNCHANGED <<pc, rwc>>
           \/ \E err \in EmbedderErrors :
                 /\ calls' = <<Call("OnNewMail", <<email, size>>, err)>>
                 /\ env' = Null
                 /\ replies' = <<"451 denied\r\n">>
                 /\ rwc' = "closed"
                 /\ UNCHANGED <<pc, txOpen>>

\* the mutation of handleMailFrom: a rejected MAIL FROM leaves the
\* connection open
handleMailFromNoClose(email, size) ==
    IF env # Null
      THEN /\ replies' = <<sendlinef("503 5.5.1 Error: nested MAIL command")>>
           /\ calls' = <<>>
           /\ UNCHANGED <<pc, env, rwc, txOpen>>
      ELSE IF ~srv.OnNewMail
      THEN /\ pc' = "panic"
           /\ rwc' = "closed"
           /\ replies' = <<>>
           /\ calls' = <<>>
           /\ UNCHANGED <<env, txOpen>>
      ELSE \/ \E k \in EnvKinds :
                 /\ calls' = <<Call("OnNewMail", <<email, size>>, NilErr)>>
                 /\ env' = NewEnvelope(k)
                 /\ txOpen' = TRUE
                 /\ replies' = <<sendlinef("250 2.1.0 Ok")>>
                 /\ UNCHANGED <<pc, rwc>>
           \/ \E err \in EmbedderErrors :
                 /\ calls' = <<Call("OnNewMail", <<email, size>>, err)>>
                 /\ env' = Null
                 /\ replies' = <<"451 denied\r\n">>
                 /\ UNCHANGED <<pc, rwc, txOpen>>

\* session.handleMailFrom.  A nil OnNewMail panics: the deferred Close runs
\* and the process ends.  The callback returns an envelope of some kind, or
\* an error.
handleMailFrom(email, size) ==
    IF env # Null
      THEN /\ replies' = <<sendlinef("503 5.5.1 Error: nested MAIL command")>>
           /\ calls' = <<>>
           /\ UNCHANGED <<pc, env, rwc, txOpen>>
      ELSE IF ~srv.OnNewMail
      THEN /\ pc' = "panic"
           /\ rwc' = "closed"
           /\ replies' = <<>>
           /\ calls' = <<>>
           /\ UNCHANGED <<env, txOpen>>
      ELSE \/ \E k \in EnvKinds :
                 /\ calls' = <<Call("OnNewMail", <<email, size>>, NilErr)>>
                 /\ env' = NewEnvelope(k)
                 /\ txOpen' = TRUE
                 /\ replies' = <<sendlinef("250 2.1.0 Ok")>>
                 /\ UNCHANGED <<pc, rwc>>
           \/ \E err \in EmbedderErrors :
                 /\ calls' = <<Call("OnNewMail", <<email, size>>, err)>>
                 /\ env' = Null
                 /\ replies' = <<"451 denied\r\n">>
                 /\ rwc' = "closed"
                 /\ UNCHANGED <<pc, txOpen>>

\* serve, case "MAIL"
ServeMail ==
    \E l \in Lines :
        /\ Parsed[l].invalid = ""
        /\ Parsed[l].verb = MAIL
        /\ ReadCmd(l)
        /\ TakeLine
        /\ IF Parsed[l].from = NoMatch
             THEN /\ replies' = <<sendlinef("501 5.1.7 Bad sender address syntax")>>
                  /\ calls' = <<>>
                  /\ UNCHANGED <<pc, env, rwc, txOpen>>
             ELSE IF Parsed[l].size = <<AtoiError>>
             THEN /\ replies' = <<sendlinef("501 5.5.4 Syntax error in parameters or arguments (invalid SIZE parameter)")>>
                  /\ calls' = <<>>
                  /\ UNCHANGED <<pc, env, rwc, txOpen>>
             ELSE handleMailFrom(Parsed[l].from[1], Parsed[l].size)
        /\ UNCHANGED <<srv, eof, tls, helloType, helloHost, nbody>>
        /\ RcptHistory
        /\ IOHistory(sendfIO)

\* the mutation of handleRcpt: no check for a current envelope
handleRcptNoEnvCheck(l) ==
    IF Parsed[l].to = NoMatch
      THEN /\ replies' = <<sendlinef("501 5.1.7 Bad sender address syntax")>>
           /\ calls' = <<>>
           /\ env' = env
      ELSE \E r \in AddRecipient(env, Parsed[l].to[1]) :
              /\ Len(r[2].rcpts) <= MaxRcpts
              /\ calls' = <<Call("AddRecipient", Parsed[l].to, r[1])>>
              /\ env' = r[2]
              /\ replies' = IF r[1].kind # "nil"
                              THEN <<sendSMTPErrorOrLinef(r[1], "550 bad recipient")>>
                              ELSE <<sendlinef("250 2.1.0 Ok")>>

\* session.handleRcpt
handleRcpt(l) ==
    IF env = Null
      THEN /\ replies' = <<sendlinef("503 5.5.1 Error: need MAIL command")>>
           /\ calls' = <<>>
           /\ env' = env
      ELSE IF Parsed[l].to = NoMatch
      THEN /\ replies' = <<sendlinef("501 5.1.7 Bad sender address syntax")>>
           /\ calls' = <<>>
           /\ env' = env
      ELSE \E r \in AddRecipient(env, Parsed[l].to[1]) :
              /\ Len(r[2].rcpts) <= MaxRcpts
              /\ calls' = <<Call("AddRecipient", Parsed[l].to, r[1])>>
              /\ env' = r[2]
              /\ replies' = IF r[1].kind # "nil"
                              THEN <<sendSMTPErrorOrLinef(r[1], "550 bad recipient")>>
                              ELSE <<sendlinef("250 2.1.0 Ok")>>

ServeRcpt ==
    \E l \in Lines :
        /\ Parsed[l].invalid = ""
        /\ Parsed[l].verb = RCPT
        /\ ReadCmd(l)
        /\ TakeLine
        /\ handleRcpt(l)
        /\ UNCHANGED <<srv, pc, rwc, eof, tls, helloType, helloHost, txOpen, nbody>>
        /\ RcptHistory
        /\ IOHistory(sendfIO)

\* session.handleError; sent is what the command has been answered so far
handleError(method, err, sent) ==
    IF err.kind = "smtp"
      THEN /\ replies' = Append(sent, sendlinef(err.text))
           /\ env' = env
      ELSE /\ replies' = sent
           /\ env' = Null

\* session.handleData, up to the 354 reply
handleData ==
    IF env = Null
      THEN /\ replies' = <<sendlinef("503 5.5.1 Error: need RCPT command")>>
           /\ calls' = <<>>
           /\ UNCHANGED <<pc, env, nbody>>
      ELSE \E err \in BeginData(env) :
              /\ calls' = <<Call("BeginData", <<>>, err)>>
              /\ IF err.kind # "nil"
                   THEN /\ handleError("BeginData", err, <<>>)
                        /\ UNCHANGED <<pc, nbody>>
                   ELSE /\ replies' = <<sendlinef("354 Go ahead")>>
                        /\ pc' = "data"
                        /\ nbody' = 0
                        /\ env' = env

ServeData ==
    \E l \in Lines :
        /\ Parsed[l].invalid = ""
        /\ Parsed[l].verb = DATA
        /\ ReadCmd(l)
        /\ TakeLine
        /\ handleData
        /\ UNCHANGED <<srv, rwc, eof, tls, helloType, helloHost, txOpen>>
        /\ RcptHistory
        /\ IOHistory(sendfIO)

\* what ReadSlice can return in handleData: the next line of the bytes the
\* client has sent, or a line the client makes up now
NextBodyLines == IF wire # <<>> THEN {ReadSlice(wire)} ELSE BodyLines

\* a mutation of EndOfData: every line that begins with a dot ends the data
EndOfDataAtAnyDot(sl) == sl[1] = "."

\* handleData: bytes.Equal(sl, []byte(".\r\n"))
EndOfData(sl) == sl = <<".", "\r", "\n">>

\* handleData: the leading dot of a line is removed
Unstuff(sl) == IF sl[1] = "." THEN Tail(sl) ELSE sl

\* session.handleData, one turn of the loop that reads the body: the line
\* is the terminator, or it is unstuffed and handed to Write
DataLine ==
    \E sl \in NextBodyLines :
        /\ pc = "data"
        /\ CanRead
        /\ TakeLine
        /\ rcvd' = Append(rcvd, sl)
        /\ wire' = SubSeq(wire, Len(sl) + 1, Len(wire))
        /\ IF EndOfData(sl)
             THEN \E err \in EnvClose(env) :
                     /\ calls' = Append(calls, Call("Close", <<>>, err))
                     /\ IF err.kind # "nil"
                          THEN handleError("Close", err, replies)
                          ELSE /\ replies' = Append(replies, sendlinef("250 2.0.0 Ok: queued"))
                               /\ env' = Null
                     /\ pc' = "cmd"
                     /\ txOpen' = FALSE
                     /\ nbody' = nbody
             ELSE \E err \in Write(env, Unstuff(sl)) :
                     /\ nbody < MaxBody \/ wire # <<>>
                     /\ calls' = Append(calls, Call("Write", <<Unstuff(sl)>>, err))
                     /\ nbody' = nbody + 1
                     /\ env' = env
                     /\ IF err.kind # "nil"
                          THEN /\ replies' = Append(replies,
                                      sendSMTPErrorOrLinef(err, "550 ??? failed"))
                               /\ pc' = "cmd"
                               /\ txOpen' = FALSE
                          ELSE UNCHANGED <<replies, pc, txOpen>>
        /\ UNCHANGED <<srv, rwc, eof, tls, helloType, helloHost, line, body, ln>>
        /\ step' = "body"
        /\ prev' = prev
        /\ RcptHistory
        /\ IOHistory(sendfIO)

\* session.handleData: ReadSlice fails while the body is read; handleData
\* returns to the loop of serve
DataReadError ==
    /\ pc = "data"
    /\ CanFail
    /\ pc' = "cmd"
    /\ txOpen' = FALSE
    /\ eof' \in (IF rwc = "open" THEN {eof, TRUE} ELSE {eof})
    /\ UNCHANGED <<srv, env, rwc, buffered, tls, helloType, helloHost, line,
                   replies, calls, nbody>>
    /\ step' = "bodyerror"
    /\ prev' = prev
    /\ UNCHANGED <<rcvd, wire, body, ln>>
    /\ RcptHistory
    /\ IOHistory(sendfIO)

Next ==
    \/ Greet
    \/ ServeReadError
    \/ ServeInvalid
    \/ ServeHello
    \/ ServeStartTLS
    \/ ServeQuit
    \/ ServeRset
    \/ ServeNoop
    \/ ServeMail
    \/ ServeRcpt
    \/ ServeData
    \/ ServeUnknown
    \/ DataLine
    \/ DataReadError

Spec == Init /\ [][Next]_vars

(***************************************************************************)
(* Server.Serve: the accept loop, which runs beside the session.  A panic   *)
(* of the session's goroutine ends the process and the loop with it.        *)
(***************************************************************************)
session == <<srv, pc, env, rwc, eof, buffered, tls, helloType, helloHost,
             line, replies, calls, txOpen, nbody, step, prev,
             rcvd, rcptFailed, wire, body, io>>

\* what ln.Accept returns: a connection, a temporary net.Error, another error
AcceptResults == {"conn", "temporary", "permanent"}

\* a mutation of ServeLoop: Serve returns on every error
ServeLoopReturnsOnError(e) ==
    ln' = [last |-> e, running |-> e = "conn"]

\* one turn of the loop of Serve after Accept has returned e: a temporary
\* error is logged, a connection gets a session and a goroutine, and the
\* loop goes on; any other error is returned
ServeLoop(e) ==
    ln' = [last |-> e, running |-> e # "permanent"]

Serve ==
    \E e \in AcceptResults :
        /\ ln.running
        /\ pc # "panic"
        /\ ServeLoop(e)
        /\ UNCHANGED session

ServerNext == Next \/ Serve

ServerSpec == Init /\ [][ServerNext]_vars

(***************************************************************************)
(* A client that sends a whole message body the way RFC 5321 4.5.2 tells    *)
(* it to: every line that begins with a dot gets one more dot, and a line   *)
(* with a single dot follows the last line.                                 *)
(***************************************************************************)
\* the bytes of body lines
Alphabet == {"a", ".", "\n"}

\* the lines of a body: up to MaxLen bytes and CR LF
MessageLines ==
    {c \o CRLF : c \in UNION {[1..n -> Alphabet] : n \in 0..MaxLen}}

\* the bodies: up to MaxBody lines
Bodies == UNION {[1..n -> MessageLines] : n \in 0..MaxBody}

RECURSIVE Flatten(_)
Flatten(ls) == IF ls = <<>> THEN <<>> ELSE Head(ls) \o Flatten(Tail(ls))

StuffLine(l) == IF l[1] = "." THEN <<".">> \o l ELSE l

\* what the client puts on the wire for the body B
Stuff(B) == Flatten([i \in 1..Len(B) |-> StuffLine(B[i])]) \o <<".", "\r", "\n">>

\* the session has answered DATA with 354 and the client has sent a body
StuffInit ==
    /\ srv = DefaultServer
    /\ pc = "data"
    /\ env = [kind |-> "basic", rcpts |-> <<AddrBY>>]
    /\ rwc = "open"
    /\ eof = FALSE
    /\ buffered = 0
    /\ tls = FALSE
    /\ helloType = <<>>
    /\ helloHost = <<>>
    /\ line = DATA \o CRLF
    /\ replies = <<sendlinef("354 Go ahead")>>
    /\ calls = <<Call("BeginData", <<>>, NilErr)>>
    /\ txOpen = TRUE
    /\ nbody = 0
    /\ step = "command"
    /\ prev = [env |-> env, rwc |-> "open"]
    /\ rcvd = <<>>
    /\ rcptFailed = FALSE
    /\ body \in Bodies
    /\ wire = Stuff(body)
    /\ io = serveReadIO \o sendfIO
    /\ ln = [last |-> "none", running |-> TRUE]

StuffSpec == StuffInit /\ [][DataLine]_vars

(***************************************************************************)
(* A client that has sent a whole body, stuffed and terminated, behind the  *)
(* DATA command that was answered 354: the session reads those bytes, in    *)
(* handleData and, once handleData has returned, in serve.                  *)
(***************************************************************************)
\* the lines of such a body, before stuffing
SentLines == {Unstuff(l) : l \in {b \in BodyLines : ~EndOfData(b)}}

SentBodies == UNION {[1..n -> SentLines] : n \in 0..MaxBody}

BodyInit ==
    /\ srv = DefaultServer
    /\ pc = "data"
    /\ env \in {[kind |-> "basic", rcpts |-> <<AddrBY>>],
                [kind |-> "custom", rcpts |-> <<>>]}
    /\ rwc = "open"
    /\ eof = FALSE
    /\ buffered = 0
    /\ tls = FALSE
    /\ helloType = <<>>
    /\ helloHost = <<>>
    /\ line = DATA \o CRLF
    /\ replies = <<sendlinef("354 Go ahead")>>
    /\ calls = <<Call("BeginData", <<>>, NilErr)>>
    /\ txOpen = TRUE
    /\ nbody = 0
    /\ step = "command"
    /\ prev = [env |-> env, rwc |-> "open"]
    /\ rcvd = <<>>
    /\ rcptFailed = FALSE
    /\ body \in SentBodies
    /\ wire = Stuff(body)
    /\ io = serveReadIO \o sendfIO
    /\ ln = [last |-> "none", running |-> TRUE]

\* the steps that read those bytes: body lines in handleData, and in serve
\* the commands those lines make
BodyNext ==
    \/ DataLine
    \/ DataReadError
    \/ ServeNoop
    \/ ServeUnknown

BodySpec == BodyInit /\ [][BodyNext]_vars

\* a step of the session that does not wait for the client: the greeting,
\* a read served from the buffer, a read from a connection that is closed
\* or at end of file
NonBlocking ==
    /\ pc = "start" \/ buffered > 0 \/ rwc = "closed" \/ eof
    /\ Next

\* the session's goroutine is scheduled whenever it can run
FairSpec == Spec /\ WF_vars(NonBlocking)

(***************************************************************************)
(* Vocabulary of the properties.  step = "command" holds exactly in the     *)
(* states a command step has just produced; there line is the command,      *)
(* replies and calls are what it was answered and what it invoked, and prev *)
(* is the envelope and the connection as the command found them.            *)
(***************************************************************************)
Last(q) == q[Len(q)]

\* the last command line was well-formed and had the verb v
LastVerbIs(v) ==
    /\ line # NoLine
    /\ Parsed[line].invalid = ""
    /\ Parsed[line].verb = v

\* a command with the verb v has just been answered
Answered(v) == step = "command" /\ LastVerbIs(v)

\* a well-formed MAIL FROM: the argument has the form FROM:<addr>[ params]
\* and the SIZE parameter, if any, is accepted
WellFormedMail(l) ==
    /\ Parsed[l].invalid = ""
    /\ Parsed[l].verb = MAIL
    /\ Parsed[l].from # NoMatch
    /\ Parsed[l].size # <<AtoiError>>

Reply354 == "354 Go ahead\r\n"
Reply451 == "451 denied\r\n"
Reply500Arg == "500 unexpected argument\r\n"
Reply501Size == "501 5.5.4 Syntax error in parameters or arguments (invalid SIZE parameter)\r\n"
Reply503Nested == "503 5.5.1 Error: nested MAIL command\r\n"
Reply503NeedMail == "503 5.5.1 Error: need MAIL command\r\n"
Reply503NeedRcpt == "503 5.5.1 Error: need RCPT command\r\n"
Reply554NoRcpt == "554 5.5.1 Error: no valid recipients\r\n"

(***************************************************************************)
(* C1.  Whenever the session waits for its next command, the envelope is    *)
(* non-null exactly when a MAIL FROM has been accepted and neither a RSET   *)
(* nor the end of a DATA phase that began with 354 has followed.            *)
(***************************************************************************)
C1_EnvIffTransactionOpen ==
    pc = "cmd" => ((env # Null) <=> txOpen)

(***************************************************************************)
(* C2.  Every command line is answered by exactly one reply; an accepted    *)
(* DATA is answered by 354 and then exactly one final status.  (Stated of   *)
(* every line but STARTTLS, whose handshake is an exchange of its own.)     *)
(***************************************************************************)
C2_OneReplyPerCommand ==
    /\ (pc \in {"cmd", "done"} /\ line # NoLine /\ ~LastVerbIs(STARTTLS)) =>
          \/ Len(replies) = 1 /\ replies[1] # Reply354
          \/ Len(replies) = 2 /\ replies[1] = Reply354 /\ LastVerbIs(DATA)
    /\ pc = "data" => replies = <<Reply354>>

(***************************************************************************)
(* C3.  While the session has an envelope, a well-formed MAIL FROM is       *)
(* answered 503 5.5.1 Error: nested MAIL command, OnNewMail is not called   *)
(* and the envelope is left as it is.                                       *)
(***************************************************************************)
C3_NestedMailRejected ==
    (step = "command" /\ WellFormedMail(line) /\ prev.env # Null) =>
        /\ replies = <<Reply503Nested>>
        /\ calls = <<>>
        /\ env = prev.env

C3_Witness ==
    /\ step = "command"
    /\ WellFormedMail(line)
    /\ prev.env # Null
    /\ Len(prev.env.rcpts) > 0
    /\ replies = <<Reply503Nested>>

(***************************************************************************)
(* C4.  AddRecipient is invoked only while the session has an envelope: a   *)
(* RCPT without one is answered 503 5.5.1 Error: need MAIL command, calls   *)
(* nothing and leaves the session as it was.                                *)
(***************************************************************************)
C4_RcptNeedsEnvelope ==
    /\ (Answered(RCPT) /\ prev.env = Null) =>
          /\ replies = <<Reply503NeedMail>>
          /\ calls = <<>>
          /\ env = Null
          /\ pc = "cmd"
          /\ rwc = prev.rwc
    /\ (\E i \in 1..Len(calls) : calls[i].op = "AddRecipient") =>
          prev.env # Null

C4_Witness ==
    /\ Answered(RCPT)
    /\ prev.env = Null
    /\ replies = <<Reply503NeedMail>>

(***************************************************************************)
(* C5.  With the basic envelope, 354 is sent and the body is read only when *)
(* the session has an envelope with at least one accepted recipient; DATA   *)
(* without an envelope is answered 503 5.5.1 Error: need RCPT command, DATA *)
(* with an envelope without recipients 554 5.5.1 Error: no valid            *)
(* recipients, and neither reads a body line.                               *)
(***************************************************************************)
C5_DataNeedsRecipient ==
    /\ (Answered(DATA) /\ prev.env = Null) =>
          /\ replies = <<Reply503NeedRcpt>>
          /\ calls = <<>>
          /\ pc = "cmd"
    /\ (Answered(DATA) /\ prev.env.kind = "basic" /\ prev.env.rcpts = <<>>) =>
          /\ replies = <<Reply554NoRcpt>>
          /\ pc = "cmd"
    /\ (/\ prev.env.kind \in {"nil", "basic"}
        /\ pc = "data" \/ step = "body" \/ (replies # <<>> /\ replies[1] = Reply354)) =>
          /\ prev.env.kind = "basic"
          /\ Len(prev.env.rcpts) >= 1

C5_Witness ==
    /\ pc = "data"
    /\ step = "command"
    /\ prev.env.kind = "basic"
    /\ Len(prev.env.rcpts) >= 1
    /\ replies = <<Reply354>>

(***************************************************************************)
(* C6.  When OnNewMail returns an error, the one reply is 451 denied, the   *)
(* envelope stays null, the connection is closed, and the session ends.     *)
(***************************************************************************)
MailDenied ==
    /\ Answered(MAIL)
    /\ calls # <<>>
    /\ calls[1].op = "OnNewMail"
    /\ calls[1].err.kind # "nil"

C6_DeniedMailClosesSession ==
    /\ [](MailDenied =>
            /\ replies = <<Reply451>>
            /\ env = Null
            /\ rwc = "closed")
    /\ (MailDenied ~> pc = "done")

C6_Witness ==
    /\ MailDenied
    /\ pc = "cmd"
    /\ buffered > 0

(***************************************************************************)
(* C7.  Whenever a callback or an envelope operation returns an SMTPError,  *)
(* the session sends that error's text as the reply and is not terminated.  *)
(***************************************************************************)
\* the session has just invoked a callback or an envelope operation, and it
\* returned an SMTPError
SMTPErrorReturned ==
    /\ step \in {"greet", "command", "body"}
    /\ calls # <<>>
    /\ Last(calls).err.kind = "smtp"

C7_SMTPErrorVerbatimAndOpen ==
    SMTPErrorReturned =>
        /\ replies # <<>>
        /\ Last(replies) = sendlinef(Last(calls).err.text)
        /\ pc = "cmd"
        /\ rwc = prev.rwc

\* C7 as amended: it holds of the envelope operations; after OnNewConnection
\* the text is sent and the session ends; after OnNewMail the reply is
\* 451 denied and the connection is closed.
C7_SMTPErrorByOperation ==
    SMTPErrorReturned =>
        CASE Last(calls).op = "OnNewConnection" ->
                /\ replies = <<sendlinef(Last(calls).err.text)>>
                /\ pc = "done"
                /\ rwc = "closed"
          [] Last(calls).op = "OnNewMail" ->
                /\ replies = <<Reply451>>
                /\ pc = "cmd"
                /\ rwc = "closed"
          [] OTHER ->
                /\ replies # <<>>
                /\ Last(replies) = sendlinef(Last(calls).err.text)
                /\ pc = "cmd"
                /\ rwc = prev.rwc

C7_Witness ==
    /\ SMTPErrorReturned
    /\ Last(calls).op = "Write"
    /\ Last(replies) = sendlinef(Last(calls).err.text)
    /\ pc = "cmd"
    /\ rwc = "open"

(***************************************************************************)
(* C8.  A command line that does not end in CR LF is answered 500 and ends  *)
(* the session: no further command is read, the connection is closed.       *)
(***************************************************************************)
C8_BadFramingTerminates ==
    (line # NoLine /\ ~HasSuffix(line, CRLF)) =>
        /\ Len(replies) = 1
        /\ pc = "done"
        /\ rwc = "closed"

(***************************************************************************)
(* C9.  RSET, DATA or QUIT with a non-empty argument is answered            *)
(* 500 unexpected argument and does nothing else: the envelope is kept, no  *)
(* DATA phase starts, the connection is not closed; with an empty argument  *)
(* the verb is carried out.                                                 *)
(***************************************************************************)
\* the last line is a RSET, DATA or QUIT line, by the verb cmdLine.Verb finds
NoArgVerb(l) ==
    /\ l # NoLine
    /\ HasSuffix(l, CRLF)
    /\ Parsed[l].verb \in {RSET, DATA, QUIT}

C9_NoArgumentVerbs ==
    /\ (step = "command" /\ NoArgVerb(line) /\ Parsed[line].arg # <<>>) =>
          /\ replies = <<Reply500Arg>>
          /\ calls = <<>>
          /\ env = prev.env
          /\ pc = "cmd"
          /\ rwc = prev.rwc
    /\ (step = "command" /\ NoArgVerb(line) /\ Parsed[line].arg = <<>>) =>
          /\ replies # <<Reply500Arg>>
          /\ Parsed[line].verb = RSET =>
                env = Null /\ replies = <<"250 2.0.0 OK\r\n">>
          /\ Parsed[line].verb = QUIT =>
                pc = "done" /\ rwc = "closed" /\ replies = <<"221 2.0.0 Bye\r\n">>
          /\ Parsed[line].verb = DATA =>
                \/ prev.env = Null /\ replies = <<Reply503NeedRcpt>>
                \/ prev.env # Null /\ calls # <<>> /\ calls[1].op = "BeginData"

C9_Witness ==
    /\ step = "command"
    /\ line = RSET \o SP \o <<"x">> \o CRLF
    /\ replies = <<Reply500Arg>>
    /\ env # Null
    /\ rwc = "open"

(***************************************************************************)
(* C10.  A MAIL FROM with SIZE=<v>: for v a decimal integer OnNewMail       *)
(* receives that value, without a SIZE parameter it receives no size, and   *)
(* for v not an integer the reply is 501 5.5.4, OnNewMail is not called     *)
(* and the envelope stays null.                                             *)
(***************************************************************************)
\* the positions of "SIZE=" in the parameters, as the client wrote them
SizeParams(p) ==
    {i \in 1..(Len(p) - 4) :
        ToUpper(SubSeq(p, i, i + 3)) = <<"S","I","Z","E">> /\ p[i + 4] = "="}

\* the value v of the first SIZE=<v>: the text up to the next space
SizeValue(p) ==
    LET start == Min(SizeParams(p)) + 5
        stop == IF Positions(p, " ", start) = {}
                  THEN Len(p) ELSE Min(Positions(p, " ", start)) - 1
    IN  SubSeq(p, start, stop)

IsInteger(v) == v # <<>> /\ \A i \in 1..Len(v) : IsDigit(v[i])

C10_SizeOption ==
    (Answered(MAIL) /\ pc = "cmd" /\ Parsed[line].from # NoMatch /\ prev.env = Null) =>
        LET p == Parsed[line].from[2] IN
        IF SizeParams(p) = {}
          THEN calls # <<>> => calls[1].arg[2] = <<>>
          ELSE IF IsInteger(SizeValue(p))
          THEN calls # <<>> => calls[1].arg[2] = <<Atoi(SizeValue(p))>>
          ELSE /\ replies = <<Reply501Size>>
               /\ calls = <<>>
               /\ env = Null

(***************************************************************************)
(* C11.  HELO is answered by the single line 250 <hostname>, without        *)
(* extension lines, whatever the server's configuration.                    *)
(***************************************************************************)
C11_HeloSingleLine ==
    Answered(HELO) => replies = <<"250 " \o Hostname \o "\r\n">>

(***************************************************************************)
(* C12.  The reply to EHLO is a function of the configuration alone: the    *)
(* hostname, AUTH PLAIN iff PlainAuth, STARTTLS iff TLSConfig, SIZE n iff   *)
(* MaxSize is not 0, then PIPELINING, ENHANCEDSTATUSCODES, 8BITMIME, DSN,   *)
(* in this order, every line with 250- but the last, 250 DSN.               *)
(***************************************************************************)
EhloReply ==
    "250-" \o Hostname \o "\r\n"
    \o (IF srv.PlainAuth THEN "250-AUTH PLAIN\r\n" ELSE "")
    \o (IF srv.TLSConfig THEN "250-STARTTLS\r\n" ELSE "")
    \o (IF srv.MaxSize # 0
          THEN "250-SIZE " \o ToString(srv.MaxSize) \o "\r\n" ELSE "")
    \o "250-PIPELINING\r\n250-ENHANCEDSTATUSCODES\r\n250-8BITMIME\r\n250 DSN\r\n"

C12_EhloReplyFromConfig ==
    Answered(EHLO) => replies = <<EhloReply>>

\* EHLO b, in lower case, answered on the server with every option while an
\* envelope is open and the connection is under TLS
C12_Witness ==
    /\ Answered(EHLO)
    /\ Parsed[line].arg = <<"b">>
    /\ srv.PlainAuth /\ srv.TLSConfig /\ srv.MaxSize # 0
    /\ env # Null
    /\ tls
    /\ replies = <<EhloReply>>

(***************************************************************************)
(* C13.  HELO and EHLO clear the envelope: right after the reply the        *)
(* session has none.                                                        *)
(***************************************************************************)
C13_HelloClearsEnvelope ==
    (Answered(HELO) \/ Answered(EHLO)) => env = Null

(***************************************************************************)
(* C14.  When the TLS handshake of STARTTLS fails, the session sends        *)
(* 403 4.7.0 TLS handshake failed and ends: it reads no further command and *)
(* the connection is closed.                                                *)
(***************************************************************************)
HandshakeFailed ==
    /\ Answered(STARTTLS)
    /\ calls # <<>>
    /\ calls[1].op = "Handshake"
    /\ calls[1].err.kind # "nil"

C14_HandshakeFailureTerminates ==
    HandshakeFailed =>
        /\ Last(replies) = "403 4.7.0 TLS handshake failed\r\n"
        /\ pc = "done"
        /\ rwc = "closed"

(***************************************************************************)
(* C15.  When AddRecipient returns a plain error the reply is               *)
(* 550 bad recipient, the session stays open and keeps its envelope, and a  *)
(* later RCPT of the same transaction whose AddRecipient succeeds is        *)
(* answered 250 2.1.0 Ok.                                                   *)
(***************************************************************************)
\* a RCPT has just been answered after AddRecipient returned an error of
\* kind k ("nil" for no error)
RcptReturned(k) ==
    /\ Answered(RCPT)
    /\ calls # <<>>
    /\ calls[1].op = "AddRecipient"
    /\ calls[1].err.kind = k

C15_PlainRecipientError ==
    /\ RcptReturned("plain") =>
          /\ replies = <<"550 bad recipient\r\n">>
          /\ pc = "cmd"
          /\ rwc = prev.rwc
          /\ env = prev.env
          /\ rcptFailed
    /\ (RcptReturned("nil") /\ rcptFailed) =>
          /\ replies = <<"250 2.1.0 Ok\r\n">>
          /\ pc = "cmd"
          /\ rwc = prev.rwc
          /\ env # Null
          /\ env.kind = "custom" \/ Last(env.rcpts) = calls[1].arg[1]

\* the embedder that rejects bad@: a recipient accepted after one was
\* rejected
C15_Witness ==
    /\ RcptReturned("nil")
    /\ rcptFailed
    /\ env.kind = "ajas"
    /\ env.rcpts = <<AddrBY>>
    /\ replies = <<"250 2.1.0 Ok\r\n">>
    /\ rwc = "open"

(***************************************************************************)
(* C16.  When BeginData returns an error, the DATA command is answered by   *)
(* that error, be it a plain error or an SMTPError; no 354 is sent and no   *)
(* body line is read; the envelope becomes null for a plain error and is    *)
(* kept for an SMTPError.                                                   *)
(***************************************************************************)
BeginDataFailed ==
    /\ Answered(DATA)
    /\ calls # <<>>
    /\ calls[1].op = "BeginData"
    /\ calls[1].err.kind # "nil"

C16_BeginDataErrorIsReply ==
    BeginDataFailed =>
        /\ Len(replies) = 1
        /\ replies[1] # Reply354
        /\ calls[1].err.kind = "smtp" => replies[1] = calls[1].err.text \o "\r\n"
        /\ pc = "cmd"
        /\ rcvd = <<>>
        /\ env = IF calls[1].err.kind = "smtp" THEN prev.env ELSE Null

(***************************************************************************)
(* C17.  No fault inside a session stops the accept loop: I/O error,        *)
(* protocol error, callback or envelope error, a MAIL FROM on a server      *)
(* without OnNewMail.  The loop goes on after a connection and after a      *)
(* temporary error, and stops only by returning on a permanent error.       *)
(***************************************************************************)
\* Serve is in its loop, accepting connections
Accepting == ln.running /\ pc # "panic"

C17_SessionFaultsSpareAcceptLoop ==
    /\ ln.last \in {"none", "conn", "temporary"} => Accepting
    /\ ~Accepting => ln.last = "permanent"

\* the same with the one fault that does stop the loop: a well-formed MAIL
\* FROM with no envelope open, on a server without OnNewMail, panics
C17_AcceptLoopStopsOnlyBy ==
    /\ ln.last \in {"none", "conn", "temporary"} => ln.running
    /\ ~ln.running => ln.last = "permanent"
    /\ pc = "panic" =>
          /\ ~srv.OnNewMail
          /\ Answered(MAIL)
          /\ WellFormedMail(line)
          /\ prev.env = Null
    /\ (~srv.OnNewMail /\ Answered(MAIL) /\ WellFormedMail(line)) => pc = "panic"

\* a session has ended on a read error and the loop, after a temporary
\* error, is accepting
C17_Witness ==
    /\ pc = "done"
    /\ step = "readerror"
    /\ ln = [last |-> "temporary", running |-> TRUE]

(***************************************************************************)
(* C18.  Unstuffing inverts stuffing: when the client sends the stuffed     *)
(* body B and the terminator, Write receives the bytes of B, all of them    *)
(* and nothing else.                                                        *)
(***************************************************************************)
\* the lines Write has been given since the DATA command
Written ==
    LET w == SelectSeq(calls, LAMBDA c : c.op = "Write")
    IN  [i \in 1..Len(w) |-> w[i].arg[1]]

C18_UnstuffInvertsStuff ==
    (body # <<>> /\ pc = "cmd") => Flatten(Written) = Flatten(body)

(***************************************************************************)
(* C19.  In a DATA phase where every Write succeeds, Write is called once   *)
(* for every line received before the first line that is a dot and CR LF,   *)
(* in the order received and with the leading dot of a line removed; that   *)
(* line is not delivered; then Close is called exactly once, and when it    *)
(* succeeds the reply is 250 2.0.0 Ok: queued and the envelope is cleared.  *)
(***************************************************************************)
\* BeginData succeeded for the last command, a DATA
DataBegan ==
    /\ LastVerbIs(DATA)
    /\ calls # <<>>
    /\ calls[1].op = "BeginData"
    /\ calls[1].err.kind = "nil"

WritesSucceeded ==
    \A i \in 1..Len(calls) : calls[i].op = "Write" => calls[i].err.kind = "nil"

DotLine == <<".", "\r", "\n">>

\* the first n lines received are no terminators and were delivered in order
DeliveredInOrder(n) ==
    /\ Len(Written) = n
    /\ \A i \in 1..n :
          /\ rcvd[i] # DotLine
          /\ calls[i + 1].op = "Write"
          /\ Written[i] = SubSeq(rcvd[i], IF rcvd[i][1] = "." THEN 2 ELSE 1, Len(rcvd[i]))

C19_DataDeliversInOrder ==
    (DataBegan /\ WritesSucceeded) =>
        /\ pc = "data" =>
              /\ DeliveredInOrder(Len(rcvd))
              /\ Len(calls) = Len(rcvd) + 1
        /\ (pc # "data" /\ step = "body") =>
              /\ rcvd # <<>>
              /\ Last(rcvd) = DotLine
              /\ DeliveredInOrder(Len(rcvd) - 1)
              /\ Len(calls) = Len(rcvd) + 1
              /\ Last(calls).op = "Close"
              /\ Last(calls).err.kind = "nil" =>
                    /\ replies = <<Reply354, "250 2.0.0 Ok: queued\r\n">>
                    /\ env = Null

\* two lines, one of them stuffed, then the terminator
C19_Witness ==
    /\ DataBegan
    /\ step = "body"
    /\ pc = "cmd"
    /\ rcvd = << <<".", ".", "f", "o", "o", "\r", "\n">>,
                 <<"b", "o", "d", "y", "\r", "\n">>, DotLine >>
    /\ Written = << <<".", "f", "o", "o", "\r", "\n">>,
                    <<"b", "o", "d", "y", "\r", "\n">> >>
    /\ Last(calls).op = "Close"
    /\ replies = <<Reply354, "250 2.0.0 Ok: queued\r\n">>
    /\ env = Null

(***************************************************************************)
(* C20.  A read error while a DATA body is read ends the session: no        *)
(* further line is read, no further command dispatched, and the connection  *)
(* is closed.                                                               *)
(***************************************************************************)
C20_BodyReadErrorTerminates ==
    step = "bodyerror" =>
        /\ pc = "done"
        /\ rwc = "closed"

(***************************************************************************)
(* C21.  The operations invoked on an envelope come in the order            *)
(* AddRecipient*, BeginData, Write*, Close: Write only after a successful   *)
(* BeginData, Close only after the terminator of that DATA phase, and       *)
(* nothing after a Write that failed or after Close.  (BeginData repeated   *)
(* after it failed is not counted against the order here.)                  *)
(***************************************************************************)
C21_EnvelopeOperationOrder ==
    \A i \in 1..Len(calls) :
        /\ calls[i].op \in {"AddRecipient", "BeginData"} =>
              \* no DATA phase of this envelope has ended before
              /\ i = 1
              /\ txOpen \/ pc = "data" \/ step # "command"
        /\ calls[i].op = "Write" =>
              /\ i > 1
              /\ calls[1].op = "BeginData" /\ calls[1].err.kind = "nil"
              /\ \A j \in 2..(i - 1) :
                    calls[j].op = "Write" /\ calls[j].err.kind = "nil"
        /\ calls[i].op = "Close" =>
              /\ i = Len(calls)
              /\ calls[1].op = "BeginData" /\ calls[1].err.kind = "nil"
              /\ \A j \in 2..(i - 1) :
                    calls[j].op = "Write" /\ calls[j].err.kind = "nil"
              /\ Last(rcvd) = DotLine

(***************************************************************************)
(* C22.  With the timeout set, every read of a command line or of a body    *)
(* line comes right after SetReadDeadline, and every write of a reply       *)
(* (the HELO/EHLO reply included) right after SetWriteDeadline.             *)
(***************************************************************************)
C22_DeadlineBeforeEveryIO ==
    \A i \in 1..Len(io) :
        /\ io[i] = "ReadSlice" /\ srv.ReadTimeout =>
              i > 1 /\ io[i - 1] = "SetReadDeadline"
        /\ io[i] = "Write" /\ srv.WriteTimeout =>
              i > 1 /\ io[i - 1] = "SetWriteDeadline"

(***************************************************************************)
(* C23.  No line the client sends as message body, after the 354 reply and  *)
(* before the terminator of that DATA phase, is dispatched as a command:    *)
(* while bytes of the body or its terminator are unread, the only command   *)
(* dispatched last is the DATA that was answered 354.                       *)
(***************************************************************************)
C23_BodyNeverDispatched ==
    (step = "command" /\ wire # <<>>) => (pc = "data" /\ DataBegan)

(***************************************************************************)
(* C24.  Once the session has closed its connection (after QUIT, or after   *)
(* the reply to a rejected MAIL FROM) it processes no further command and   *)
(* invokes no callback or envelope operation, pipelined commands in the     *)
(* read buffer included: every command was read while the connection was    *)
(* open.                                                                    *)
(***************************************************************************)
C24_NothingAfterClose ==
    step = "command" => prev.rwc = "open"
====
